---- MODULE Spec2Model ----
(***************************************************************************)
(* A state-machine model of the pin-rc crate: PinRc<T> (src/pin_rc.rs), a  *)
(* pinned Rc<RefCell<T>>, and PinArc<T> (src/pin_arc.rs), a pinned         *)
(* Arc<RwLock<T>>, with their weak references and borrow / lock guards.    *)
(*                                                                         *)
(* One allocation is modelled.  The reference counts, the RefCell borrow   *)
(* flag and the RwLock state are the state the code manipulates; the       *)
(* numbers of live handles and guards and the history variables are what   *)
(* the callers hold and observe.                                           *)
(***************************************************************************)
EXTENDS Integers, FiniteSets, Sequences, TLC

\* Bounds of the model.
MaxHandles == 2        \* strong handles alive at the same time
NThreads   == 2        \* threads of the multi-thread variant
MaxGuards  == 2        \* guards alive at the same time
MaxWeak    == 2        \* weak references alive at the same time
MaxVal     == 2        \* the wrapped value ranges over 0..MaxVal
MaxRaw     == 1        \* raw pointers out at the same time

Threads == 1..NThreads
Values  == 0..MaxVal

VARIABLES
    variant,    \* "rc": PinRc<T> (pin_rc.rs); "arc": PinArc<T> (pin_arc.rs)
    unpinT,     \* whether the wrapped type T is Unpin (no pinning obligation)
    allocated,  \* the allocation has been made (Rc::new / Arc::new)
    strong,     \* the allocation's strong count
    weak,       \* the allocation's weak count (as weak_count reports it)
    val,        \* the wrapped value
    dropCount,  \* how many times the wrapped value's destructor has run
    nPin,       \* number of live PinRc / PinArc handles
    nPlain,     \* number of live unpinned Rc<RefCell<T>> / Arc<RwLock<T>> handles
    nweak,      \* number of live PinWeak references
    refcell,    \* RefCell borrow flag: 0 unused, n > 0 readers, -1 writing
    rwlock,     \* RwLock: [readers, writer, poisoned]
    rd,         \* thread -> number of live shared guards it holds
    wr,         \* thread -> number of live exclusive guards it holds
    pc,         \* thread -> "run" | "read_wait" | "write_wait" | "panicking"
                \*           | "upgrade" | "drop_slow" | "mapping"
    wrapped,    \* the value has been wrapped by a PinRc / PinArc handle
    viewed,     \* a pinned mutable view (as_pin) of the value has been produced
    moved,      \* the value was moved out of its place after it was wrapped
    plainMut,   \* a plain &mut T was handed out after a pinned view was produced
    panickedExcl, \* thread -> it is unwinding and held an exclusive guard at the panic
    diedExcl,   \* some thread has ended by a panic raised under its exclusive guard
    last,       \* the last operation: what was called, its result, the state before
    results,    \* lib.rs tests: the values the stored generator has yielded
    seen,       \* thread -> the strong count its upgrade in progress has loaded
    other,      \* a second, independent PinRc allocation: [made, val, flag]
    built,      \* <<v>>: constructed from v and not mutated since; else <<>>
    mapped,     \* the live exclusive guard is the result of PinRefMut::map
    nRaw        \* number of raw pointers made by into_raw and not yet given back

vars == <<variant, unpinT, allocated, strong, weak, val, dropCount, nPin,
          nPlain, nweak, refcell, rwlock, rd, wr, pc, wrapped, viewed, moved,
          plainMut, panickedExcl, diedExcl, last, results, seen, other,
          built, mapped, nRaw>>

typeVars   == <<variant, unpinT>>
allocVars  == <<allocated, strong, weak, val, dropCount>>
cellVars   == <<refcell, rwlock>>
guardVars  == <<rd, wr>>
handleVars == <<nPin, nPlain>>
pinGhost   == <<wrapped, viewed, moved, plainMut>>
panicGhost == <<panickedExcl, diedExcl>>
ghostVars  == <<pinGhost, panicGhost>>

\* State of the callers' scenarios, which most operations never touch.
scenarioVars == <<results, seen, other, built, mapped, nRaw>>

----------------------------------------------------------------------------
\* Counting what the caller holds.

\* f[1] + ... + f[n]
RECURSIVE SumTo(_, _)
SumTo(f, n) == IF n = 0 THEN 0 ELSE f[n] + SumTo(f, n - 1)

SharedGuards == SumTo(rd, NThreads)
ExclGuards   == SumTo(wr, NThreads)

StrongHandles == nPin + nPlain

\* The threads that run: the single-thread variant has one.
ActiveThreads == IF variant = "rc" THEN {1} ELSE Threads

\* The threads blocked in read() / write().
Waiting == {t \in Threads : pc[t] \in {"read_wait", "write_wait"}}

\* A guard borrows the handle it was taken through (the lifetime 'a of
\* PinRef<'a, T> etc.), and so does a call in progress: that handle can be
\* neither dropped nor consumed.  Callers are free in the handle they borrow
\* through, so one PinRc / PinArc has to stay while anything is borrowed.
PinHandleFree ==
    \/ nPin >= 2
    \/ nPin = 1 /\ SharedGuards + ExclGuards + Cardinality(Waiting) = 0

\* The state an operation starts from, as its caller could have observed it.
Snap ==
    [strong |-> strong, weak |-> weak, val |-> val, dropCount |-> dropCount,
     handles |-> StrongHandles, weaks |-> nweak,
     shared |-> SharedGuards, excl |-> ExclGuards,
     waiting |-> Cardinality(Waiting), poisoned |-> rwlock.poisoned]

\* An operation on a handle or a weak reference, and its result.
Did(op, res) ==
    last' = [op |-> op, t |-> 0, res |-> res, arg |-> <<>>, pre |-> Snap]

\* An operation of thread t that takes, uses or destroys a guard.
DidT(op, t, res) ==
    last' = [op |-> op, t |-> t, res |-> res, arg |-> <<>>, pre |-> Snap]

\* An operation of thread t on two handles, to the allocations x and y.
DidOn(op, t, res, x, y) ==
    last' = [op |-> op, t |-> t, res |-> res, arg |-> <<x, y>>, pre |-> Snap]

\* A read by thread t that yields the value v.
DidRead(op, t, v) ==
    last' = [op |-> op, t |-> t, res |-> "Ok", arg |-> <<v>>, pre |-> Snap]

NoGuards == [t \in Threads |-> 0]

Init ==
    /\ variant \in {"rc", "arc"}
    /\ unpinT \in BOOLEAN
    /\ allocated = FALSE
    /\ strong = 0
    /\ weak = 0
    /\ val = 0
    /\ dropCount = 0
    /\ nPin = 0
    /\ nPlain = 0
    /\ nweak = 0
    /\ refcell = 0
    /\ rwlock = [readers |-> 0, writer |-> FALSE, poisoned |-> FALSE]
    /\ rd = NoGuards
    /\ wr = NoGuards
    /\ pc = [t \in Threads |-> "run"]
    /\ wrapped = FALSE
    /\ viewed = FALSE
    /\ moved = FALSE
    /\ plainMut = FALSE
    /\ panickedExcl = [t \in Threads |-> FALSE]
    /\ diedExcl = FALSE
    /\ last = [op |-> "init", t |-> 0, res |-> "none", arg |-> <<>>,
               pre |-> [strong |-> 0, weak |-> 0, val |-> 0, dropCount |-> 0,
                        handles |-> 0, weaks |-> 0, shared |-> 0, excl |-> 0,
                        waiting |-> 0, poisoned |-> FALSE]]
    /\ results = <<>>
    /\ seen = [t \in Threads |-> 0]
    /\ other = [made |-> FALSE, val |-> 0, flag |-> 0]
    /\ built = <<>>
    /\ mapped = FALSE
    /\ nRaw = 0

Running(t) == t \in ActiveThreads /\ pc[t] = "run"

----------------------------------------------------------------------------
\* The reference-counted allocation (Rc / Arc), as the wrappers use it.

\* An allocation that holds the default value instead of the one given.
Alloc_new_Defaulted(v, pinned) ==
    /\ ~allocated
    /\ allocated' = TRUE
    /\ strong' = 1
    /\ weak' = 0
    /\ val' = 0
    /\ dropCount' = 0
    /\ nPin' = IF pinned THEN 1 ELSE 0
    /\ nPlain' = IF pinned THEN 0 ELSE 1
    /\ wrapped' = pinned
    /\ built' = <<v>>
    /\ UNCHANGED <<typeVars, results, seen, other, mapped, nRaw, nweak,
                   cellVars, guardVars, pc, viewed, moved, plainMut,
                   panicGhost>>

\* Rc::new(RefCell::new(data)) / Arc::new(RwLock::new(data)): one strong
\* reference, no weak reference, the cell unborrowed and unpoisoned.
Alloc_new(v, pinned) ==
    /\ ~allocated
    /\ allocated' = TRUE
    /\ strong' = 1
    /\ weak' = 0
    /\ val' = v
    /\ dropCount' = 0
    /\ nPin' = IF pinned THEN 1 ELSE 0
    /\ nPlain' = IF pinned THEN 0 ELSE 1
    /\ wrapped' = pinned
    /\ built' = <<v>>
    /\ UNCHANGED <<typeVars, results, seen, other, mapped, nRaw, nweak,
                   cellVars, guardVars, pc, viewed, moved, plainMut,
                   panicGhost>>

\* Rc::clone / Arc::clone: one more strong reference to the same allocation.
Alloc_clone ==
    /\ StrongHandles < MaxHandles
    /\ strong' = strong + 1
    /\ UNCHANGED <<typeVars, scenarioVars, allocated, weak, val, dropCount,
                   nweak, cellVars, guardVars, pc, ghostVars>>

\* A drop that destroys the value whatever the count.
Alloc_drop_AlwaysDestroys ==
    /\ strong' = strong - 1
    /\ dropCount' = dropCount + 1
    /\ UNCHANGED <<typeVars, scenarioVars, allocated, weak, val, nweak,
                   cellVars, guardVars, pc, ghostVars>>

\* Dropping a strong handle: the count goes down by one, and the value is
\* destroyed when it reaches zero.
Alloc_drop ==
    /\ strong' = strong - 1
    /\ dropCount' = IF strong - 1 = 0 THEN dropCount + 1 ELSE dropCount
    /\ UNCHANGED <<typeVars, scenarioVars, allocated, weak, val, nweak,
                   cellVars, guardVars, pc, ghostVars>>

\* A downgrade that does not count the weak reference it hands out.
Alloc_downgrade_Uncounted ==
    /\ nPin > 0
    /\ nweak < MaxWeak
    /\ nweak' = nweak + 1
    /\ UNCHANGED <<typeVars, scenarioVars, allocated, strong, weak, val,
                   dropCount, handleVars, cellVars, guardVars, pc, ghostVars>>

\* Rc::downgrade / Arc::downgrade: one more weak reference.
Alloc_downgrade ==
    /\ nPin > 0
    /\ nweak < MaxWeak
    /\ weak' = weak + 1
    /\ nweak' = nweak + 1
    /\ UNCHANGED <<typeVars, scenarioVars, allocated, strong, val, dropCount,
                   handleVars, cellVars, guardVars, pc, ghostVars>>

\* Weak::clone.
Weak_clone ==
    /\ nweak > 0
    /\ nweak < MaxWeak
    /\ weak' = weak + 1
    /\ nweak' = nweak + 1
    /\ UNCHANGED <<typeVars, scenarioVars, allocated, strong, val, dropCount,
                   handleVars, cellVars, guardVars, pc, ghostVars>>

\* Dropping a weak reference.
Weak_drop ==
    /\ nweak > 0
    /\ weak' = weak - 1
    /\ nweak' = nweak - 1
    /\ UNCHANGED <<typeVars, scenarioVars, allocated, strong, val, dropCount,
                   handleVars, cellVars, guardVars, pc, ghostVars>>

\* An upgrade that never fails.
UpgradeOk_Always(s) == TRUE

\* Weak::upgrade succeeds exactly when the strong count is not zero.
UpgradeOk(s) == s > 0

\* self.inner.upgrade().map(|inner| PinRc { inner }): Some(handle) with one
\* more strong reference, or None with nothing changed.
Weak_upgrade ==
    /\ nweak > 0
    /\ IF UpgradeOk(strong)
       THEN /\ StrongHandles < MaxHandles
            /\ nPin' = nPin + 1
            /\ strong' = strong + 1
            /\ Did("upgrade", "Some")
       ELSE /\ UNCHANGED <<nPin, strong>>
            /\ Did("upgrade", "None")
    /\ UNCHANGED <<typeVars, scenarioVars, allocated, weak, val, dropCount,
                   nPlain, nweak, cellVars, guardVars, pc, ghostVars>>

\* What strong_count / weak_count return, through any handle.
strong_count == strong
weak_count   == weak

----------------------------------------------------------------------------
\* The conversions to and from the unpinned Rc<RefCell<T>> / Arc<RwLock<T>>.

\* safe_unpin: only for T: Unpin; consumes the handle, the count is untouched.
Safe_unpin ==
    /\ unpinT
    /\ PinHandleFree
    /\ nPin' = nPin - 1
    /\ nPlain' = nPlain + 1
    /\ UNCHANGED <<typeVars, scenarioVars, allocVars, nweak, cellVars,
                   guardVars, pc, ghostVars>>

\* From<Rc<RefCell<T>>> / From<Arc<RwLock<T>>>: for any T; wraps the given
\* Rc / Arc as it is, whatever other references to its allocation exist.
From_inner ==
    /\ nPlain > 0
    /\ nPlain' = nPlain - 1
    /\ nPin' = nPin + 1
    /\ wrapped' = TRUE
    /\ UNCHANGED <<typeVars, scenarioVars, allocVars, nweak, cellVars,
                   guardVars, pc, viewed, moved, plainMut, panicGhost>>

\* The cell of an unpinned Rc / Arc is free for its holder to borrow mutably.
PlainCellFree ==
    IF variant = "rc" THEN refcell = 0
    ELSE ~rwlock.writer /\ rwlock.readers = 0

\* What the holder of an unpinned Rc<RefCell<T>> / Arc<RwLock<T>> may do in
\* safe code: mem::replace(&mut *rc.borrow_mut(), v), which hands out a plain
\* &mut T and moves the old value out of its place.
Plain_replace(v) ==
    /\ nPlain > 0
    /\ PlainCellFree
    /\ val' = v
    /\ moved' = (moved \/ wrapped)
    /\ plainMut' = (plainMut \/ viewed)
    /\ built' = <<>>
    /\ UNCHANGED <<typeVars, results, seen, other, mapped, nRaw, allocated,
                   strong, weak, dropCount, handleVars, nweak, cellVars,
                   guardVars, pc, wrapped, viewed, panicGhost>>

----------------------------------------------------------------------------
\* PinRc<T>: handles and weak references (src/pin_rc.rs).

PinRc_new(t, v) ==
    /\ variant = "rc" /\ Running(t)
    /\ Alloc_new(v, TRUE)
    /\ Did("new", "Ok")

PinRc_clone(t) ==
    /\ variant = "rc" /\ Running(t)
    /\ nPin > 0
    /\ Alloc_clone
    /\ nPin' = nPin + 1
    /\ UNCHANGED nPlain
    /\ Did("clone", "Ok")

PinRc_drop(t) ==
    /\ variant = "rc" /\ Running(t)
    /\ PinHandleFree
    /\ Alloc_drop
    /\ nPin' = nPin - 1
    /\ UNCHANGED nPlain
    /\ Did("drop", "Ok")

PinRc_downgrade(t) ==
    /\ variant = "rc" /\ Running(t)
    /\ Alloc_downgrade
    /\ Did("downgrade", "Ok")

PinRc_PinWeak_clone(t) ==
    /\ variant = "rc" /\ Running(t)
    /\ Weak_clone
    /\ Did("weak_clone", "Ok")

PinRc_PinWeak_drop(t) ==
    /\ variant = "rc" /\ Running(t)
    /\ Weak_drop
    /\ Did("weak_drop", "Ok")

PinRc_PinWeak_upgrade(t) ==
    /\ variant = "rc" /\ Running(t)
    /\ Weak_upgrade

PinRc_safe_unpin(t) ==
    /\ variant = "rc" /\ Running(t)
    /\ Safe_unpin
    /\ Did("safe_unpin", "Ok")

PinRc_from_Rc(t) ==
    /\ variant = "rc" /\ Running(t)
    /\ From_inner
    /\ Did("from", "Ok")

\* The unpinned Rc<RefCell<T>> in its holder's hands.
Rc_new(t, v) ==
    /\ variant = "rc" /\ Running(t)
    /\ Alloc_new(v, FALSE)
    /\ Did("plain_new", "Ok")

Rc_clone(t) ==
    /\ variant = "rc" /\ Running(t)
    /\ nPlain > 0
    /\ Alloc_clone
    /\ nPlain' = nPlain + 1
    /\ UNCHANGED nPin
    /\ Did("plain_clone", "Ok")

Rc_drop(t) ==
    /\ variant = "rc" /\ Running(t)
    /\ nPlain > 0
    /\ Alloc_drop
    /\ nPlain' = nPlain - 1
    /\ UNCHANGED nPin
    /\ Did("plain_drop", "Ok")

Rc_replace(t, v) ==
    /\ variant = "rc" /\ Running(t)
    /\ Plain_replace(v)
    /\ Did("plain_replace", "Ok")

----------------------------------------------------------------------------
\* PinRc<T>: borrowing through the RefCell (src/pin_rc.rs).

\* A try_borrow that does not look at the flag.
BorrowOk_Unchecked(flag) == TRUE

\* RefCell::try_borrow succeeds unless the cell is mutably borrowed.
BorrowOk(flag) == flag >= 0

\* A try_borrow_mut that only looks for another writer.
BorrowMutOk_ReadersIgnored(flag) == flag >= 0

\* RefCell::try_borrow_mut succeeds only if the cell is not borrowed at all.
BorrowMutOk(flag) == flag = 0

\* The bound on guards: a guard alive or a blocked call that will yield one.
GuardRoom == SharedGuards + ExclGuards + Cardinality(Waiting) < MaxGuards

\* A PinRef { inner: Ref } comes into being: one more reader on the flag.
TakeRef(t) ==
    /\ GuardRoom
    /\ refcell' = refcell + 1
    /\ rd' = [rd EXCEPT ![t] = @ + 1]
    /\ UNCHANGED <<wr, rwlock>>

\* A PinRefMut { inner: RefMut } comes into being: the flag says writing.
TakeRefMut(t) ==
    /\ GuardRoom
    /\ refcell' = refcell - 1
    /\ wr' = [wr EXCEPT ![t] = @ + 1]
    /\ UNCHANGED <<rd, rwlock>>

\* The thread starts to unwind.
Panics(t) ==
    /\ pc' = [pc EXCEPT ![t] = "panicking"]
    /\ panickedExcl' = [panickedExcl EXCEPT ![t] = @ \/ wr[t] > 0]
    /\ UNCHANGED <<pinGhost, diedExcl>>

PinRc_try_borrow(t) ==
    /\ variant = "rc" /\ Running(t)
    /\ nPin > 0
    /\ IF BorrowOk(refcell)
       THEN TakeRef(t) /\ DidT("try_borrow", t, "Ok")
       ELSE UNCHANGED <<cellVars, guardVars>> /\ DidT("try_borrow", t, "Err")
    /\ UNCHANGED <<typeVars, scenarioVars, allocVars, handleVars, nweak, pc,
                   ghostVars>>

\* A try_borrow_mut whose failure resets the borrow flag.
PinRc_try_borrow_mut_Resetting(t) ==
    /\ variant = "rc" /\ Running(t)
    /\ nPin > 0
    /\ IF BorrowMutOk(refcell)
       THEN TakeRefMut(t) /\ DidT("try_borrow_mut", t, "Ok")
       ELSE /\ refcell' = 0
            /\ UNCHANGED <<rwlock, guardVars>>
            /\ DidT("try_borrow_mut", t, "Err")
    /\ UNCHANGED <<typeVars, scenarioVars, allocVars, handleVars, nweak, pc,
                   ghostVars>>

PinRc_try_borrow_mut(t) ==
    /\ variant = "rc" /\ Running(t)
    /\ nPin > 0
    /\ IF BorrowMutOk(refcell)
       THEN TakeRefMut(t) /\ DidT("try_borrow_mut", t, "Ok")
       ELSE UNCHANGED <<cellVars, guardVars>> /\ DidT("try_borrow_mut", t, "Err")
    /\ UNCHANGED <<typeVars, scenarioVars, allocVars, handleVars, nweak, pc,
                   ghostVars>>

\* borrow(): RefCell::borrow panics ("already mutably borrowed") on conflict.
PinRc_borrow(t) ==
    /\ variant = "rc" /\ Running(t)
    /\ nPin > 0
    /\ IF BorrowOk(refcell)
       THEN /\ TakeRef(t)
            /\ DidT("borrow", t, "Ok")
            /\ UNCHANGED <<pc, ghostVars>>
       ELSE /\ UNCHANGED <<cellVars, guardVars>>
            /\ Panics(t)
            /\ DidT("borrow", t, "panic")
    /\ UNCHANGED <<typeVars, scenarioVars, allocVars, handleVars, nweak>>

\* A borrow_mut that hands out the value as it was constructed.
PinRc_borrow_mut_FreshValue(t) ==
    /\ variant = "rc" /\ Running(t)
    /\ nPin > 0
    /\ BorrowMutOk(refcell)
    /\ TakeRefMut(t)
    /\ val' = 0
    /\ DidT("borrow_mut", t, "Ok")
    /\ UNCHANGED <<typeVars, scenarioVars, allocated, strong, weak, dropCount,
                   handleVars, nweak, pc, ghostVars>>

\* borrow_mut(): RefCell::borrow_mut panics ("already borrowed") on conflict.
PinRc_borrow_mut(t) ==
    /\ variant = "rc" /\ Running(t)
    /\ nPin > 0
    /\ IF BorrowMutOk(refcell)
       THEN /\ TakeRefMut(t)
            /\ DidT("borrow_mut", t, "Ok")
            /\ UNCHANGED <<pc, ghostVars>>
       ELSE /\ UNCHANGED <<cellVars, guardVars>>
            /\ Panics(t)
            /\ DidT("borrow_mut", t, "panic")
    /\ UNCHANGED <<typeVars, scenarioVars, allocVars, handleVars, nweak>>

\* PinRef::clone: Ref::clone, one more reader.
PinRef_clone(t) ==
    /\ variant = "rc" /\ Running(t)
    /\ rd[t] > 0
    /\ TakeRef(t)
    /\ DidT("ref_clone", t, "Ok")
    /\ UNCHANGED <<typeVars, scenarioVars, allocVars, handleVars, nweak, pc,
                   ghostVars>>

\* A guard is destroyed by its holder leaving the scope (normally or by an
\* early return) or by the unwinding of a panic.
Leaving(t) == t \in ActiveThreads /\ pc[t] \in {"run", "panicking"}

\* The PinRef goes away: its Ref's destructor takes one reader off the flag.
PinRef_drop(t) ==
    /\ variant = "rc" /\ Leaving(t)
    /\ rd[t] > 0
    /\ rd' = [rd EXCEPT ![t] = @ - 1]
    /\ refcell' = refcell - 1
    /\ DidT("ref_drop", t, "Ok")
    /\ UNCHANGED <<typeVars, scenarioVars, allocVars, handleVars, nweak, wr,
                   rwlock, pc, ghostVars>>

\* A PinRefMut whose destruction leaves the cell marked as borrowed.
PinRefMut_drop_FlagKept(t) ==
    /\ variant = "rc" /\ Leaving(t)
    /\ wr[t] > 0
    /\ wr' = [wr EXCEPT ![t] = @ - 1]
    /\ mapped' = FALSE
    /\ DidT("refmut_drop", t, "Ok")
    /\ UNCHANGED <<typeVars, results, seen, other, built, nRaw, allocVars,
                   handleVars, nweak, rd, cellVars, pc, ghostVars>>

\* The PinRefMut goes away: its RefMut's destructor clears the writing flag.
PinRefMut_drop(t) ==
    /\ variant = "rc" /\ Leaving(t)
    /\ wr[t] > 0
    /\ wr' = [wr EXCEPT ![t] = @ - 1]
    /\ refcell' = refcell + 1
    /\ mapped' = FALSE
    /\ DidT("refmut_drop", t, "Ok")
    /\ UNCHANGED <<typeVars, results, seen, other, built, nRaw, allocVars,
                   handleVars, nweak, rd, rwlock, pc, ghostVars>>

\* as_pin on an exclusive guard: the pinned mutable view, through which the
\* caller drives the value one step (the value is a step counter).
As_pin(t) ==
    /\ wr[t] > 0
    /\ val < MaxVal
    /\ val' = val + 1
    /\ viewed' = TRUE
    /\ built' = <<>>
    /\ UNCHANGED <<typeVars, results, seen, other, mapped, nRaw, allocated,
                   strong, weak, dropCount, handleVars, nweak, cellVars,
                   guardVars, pc, wrapped, moved, plainMut, panicGhost>>

PinRefMut_as_pin(t) ==
    /\ variant = "rc" /\ Running(t)
    /\ As_pin(t)
    /\ DidT("as_pin", t, "Ok")

\* The caller's own code fails while it holds a guard (lib.rs: resume() runs
\* on the pinned view while the guard of borrow_mut() / write() is alive), and
\* the thread starts to unwind.
Caller_panic(t) ==
    /\ Running(t)
    /\ rd[t] + wr[t] > 0
    /\ Panics(t)
    /\ DidT("caller", t, "panic")
    /\ UNCHANGED <<typeVars, scenarioVars, allocVars, handleVars, nweak,
                   cellVars, guardVars>>

\* The unwinding of thread t has destroyed all its guards and the thread is
\* gone; work goes on in a thread that takes its place (the caller of
\* catch_unwind, a newly spawned thread).
Unwound(t) ==
    /\ t \in ActiveThreads
    /\ pc[t] = "panicking"
    /\ rd[t] = 0
    /\ wr[t] = 0
    /\ pc' = [pc EXCEPT ![t] = "run"]
    /\ diedExcl' = (diedExcl \/ panickedExcl[t])
    /\ panickedExcl' = [panickedExcl EXCEPT ![t] = FALSE]
    /\ DidT("unwound", t, "Ok")
    /\ UNCHANGED <<typeVars, scenarioVars, allocVars, handleVars, nweak,
                   cellVars, guardVars, pinGhost>>

----------------------------------------------------------------------------
\* PinArc<T>: handles and weak references (src/pin_arc.rs).

PinArc_new(t, v) ==
    /\ variant = "arc" /\ Running(t)
    /\ Alloc_new(v, TRUE)
    /\ Did("new", "Ok")

PinArc_clone(t) ==
    /\ variant = "arc" /\ Running(t)
    /\ nPin > 0
    /\ Alloc_clone
    /\ nPin' = nPin + 1
    /\ UNCHANGED nPlain
    /\ Did("clone", "Ok")

PinArc_drop(t) ==
    /\ variant = "arc" /\ Running(t)
    /\ PinHandleFree
    /\ Alloc_drop
    /\ nPin' = nPin - 1
    /\ UNCHANGED nPlain
    /\ Did("drop", "Ok")

PinArc_downgrade(t) ==
    /\ variant = "arc" /\ Running(t)
    /\ Alloc_downgrade
    /\ Did("downgrade", "Ok")

PinArc_PinWeak_clone(t) ==
    /\ variant = "arc" /\ Running(t)
    /\ Weak_clone
    /\ Did("weak_clone", "Ok")

PinArc_PinWeak_drop(t) ==
    /\ variant = "arc" /\ Running(t)
    /\ Weak_drop
    /\ Did("weak_drop", "Ok")

PinArc_PinWeak_upgrade(t) ==
    /\ variant = "arc" /\ Running(t)
    /\ Weak_upgrade

PinArc_safe_unpin(t) ==
    /\ variant = "arc" /\ Running(t)
    /\ Safe_unpin
    /\ Did("safe_unpin", "Ok")

PinArc_from_Arc(t) ==
    /\ variant = "arc" /\ Running(t)
    /\ From_inner
    /\ Did("from", "Ok")

\* The unpinned Arc<RwLock<T>> in its holder's hands.
Arc_new(t, v) ==
    /\ variant = "arc" /\ Running(t)
    /\ Alloc_new(v, FALSE)
    /\ Did("plain_new", "Ok")

Arc_clone(t) ==
    /\ variant = "arc" /\ Running(t)
    /\ nPlain > 0
    /\ Alloc_clone
    /\ nPlain' = nPlain + 1
    /\ UNCHANGED nPin
    /\ Did("plain_clone", "Ok")

Arc_drop(t) ==
    /\ variant = "arc" /\ Running(t)
    /\ nPlain > 0
    /\ Alloc_drop
    /\ nPlain' = nPlain - 1
    /\ UNCHANGED nPin
    /\ Did("plain_drop", "Ok")

Arc_replace(t, v) ==
    /\ variant = "arc" /\ Running(t)
    /\ Plain_replace(v)
    /\ Did("plain_replace", "Ok")

\* What is_poisoned returns, through any handle.
is_poisoned == rwlock.poisoned

----------------------------------------------------------------------------
\* PinArc<T>: locking through the RwLock (src/pin_arc.rs).

\* The lock can be read-locked: no writer holds it.
ReadOk(l) == ~l.writer

\* A write lock that only looks for another writer.
WriteOk_ReadersIgnored(l) == ~l.writer

\* The lock can be write-locked: nobody holds it.
WriteOk(l) == ~l.writer /\ l.readers = 0

\* RwLock leaves its priority policy to the platform: while threads wait for
\* the lock, a new reader may be let in or may be held back.
Contended == Waiting # {}

\* Ok(guard), or Err(PoisonError(guard)) when the lock is poisoned: the guard
\* is handed out in both cases (p.into_inner() is wrapped again).
LockResult(l) == IF l.poisoned THEN "Poisoned" ELSE "Ok"

\* A PinRwLockReadGuard comes into being.
TakeRead(t) ==
    /\ rwlock' = [rwlock EXCEPT !.readers = @ + 1]
    /\ rd' = [rd EXCEPT ![t] = @ + 1]
    /\ UNCHANGED <<wr, refcell>>

\* A PinRwLockWriteGuard comes into being.
TakeWrite(t) ==
    /\ rwlock' = [rwlock EXCEPT !.writer = TRUE]
    /\ wr' = [wr EXCEPT ![t] = @ + 1]
    /\ UNCHANGED <<rd, refcell>>

PinArc_try_read(t) ==
    /\ variant = "arc" /\ Running(t)
    /\ nPin > 0
    /\ \/ /\ ReadOk(rwlock)
          /\ GuardRoom
          /\ TakeRead(t)
          /\ DidT("try_read", t, LockResult(rwlock))
       \/ /\ ~ReadOk(rwlock) \/ Contended
          /\ UNCHANGED <<cellVars, guardVars>>
          /\ DidT("try_read", t, "WouldBlock")
    /\ UNCHANGED <<typeVars, scenarioVars, allocVars, handleVars, nweak, pc,
                   ghostVars>>

\* A try_write that reports the poison before it looks at the lock.
PinArc_try_write_PoisonFirst(t) ==
    /\ variant = "arc" /\ Running(t)
    /\ nPin > 0
    /\ IF WriteOk(rwlock)
       THEN /\ GuardRoom
            /\ TakeWrite(t)
            /\ DidT("try_write", t, LockResult(rwlock))
       ELSE /\ UNCHANGED <<cellVars, guardVars>>
            /\ DidT("try_write", t,
                    IF rwlock.poisoned THEN "Poisoned" ELSE "WouldBlock")
    /\ UNCHANGED <<typeVars, scenarioVars, allocVars, handleVars, nweak, pc,
                   ghostVars>>

PinArc_try_write(t) ==
    /\ variant = "arc" /\ Running(t)
    /\ nPin > 0
    /\ IF WriteOk(rwlock)
       THEN /\ GuardRoom
            /\ TakeWrite(t)
            /\ DidT("try_write", t, LockResult(rwlock))
       ELSE /\ UNCHANGED <<cellVars, guardVars>>
            /\ DidT("try_write", t, "WouldBlock")
    /\ UNCHANGED <<typeVars, scenarioVars, allocVars, handleVars, nweak, pc,
                   ghostVars>>

\* read(): returns with the guard at once, or the thread blocks in the call.
PinArc_read(t) ==
    /\ variant = "arc" /\ Running(t)
    /\ nPin > 0
    /\ GuardRoom
    /\ \/ /\ ReadOk(rwlock)
          /\ TakeRead(t)
          /\ DidT("read", t, LockResult(rwlock))
          /\ UNCHANGED pc
       \/ /\ ~ReadOk(rwlock) \/ Contended
          /\ pc' = [pc EXCEPT ![t] = "read_wait"]
          /\ DidT("read", t, "blocked")
          /\ UNCHANGED <<cellVars, guardVars>>
    /\ UNCHANGED <<typeVars, scenarioVars, allocVars, handleVars, nweak,
                   ghostVars>>

\* A write() that reports the poison and withholds the guard.
PinArc_write_GuardWithheld(t) ==
    /\ variant = "arc" /\ Running(t)
    /\ nPin > 0
    /\ GuardRoom
    /\ IF WriteOk(rwlock)
       THEN /\ IF rwlock.poisoned
               THEN UNCHANGED <<cellVars, guardVars>>
               ELSE TakeWrite(t)
            /\ DidT("write", t, LockResult(rwlock))
            /\ UNCHANGED pc
       ELSE /\ pc' = [pc EXCEPT ![t] = "write_wait"]
            /\ DidT("write", t, "blocked")
            /\ UNCHANGED <<cellVars, guardVars>>
    /\ UNCHANGED <<typeVars, scenarioVars, allocVars, handleVars, nweak,
                   ghostVars>>

\* write(): returns with the guard at once, or the thread blocks in the call.
PinArc_write(t) ==
    /\ variant = "arc" /\ Running(t)
    /\ nPin > 0
    /\ GuardRoom
    /\ IF WriteOk(rwlock)
       THEN /\ TakeWrite(t)
            /\ DidT("write", t, LockResult(rwlock))
            /\ UNCHANGED pc
       ELSE /\ pc' = [pc EXCEPT ![t] = "write_wait"]
            /\ DidT("write", t, "blocked")
            /\ UNCHANGED <<cellVars, guardVars>>
    /\ UNCHANGED <<typeVars, scenarioVars, allocVars, handleVars, nweak,
                   ghostVars>>

\* A blocked read() returns once no writer holds the lock.
PinArc_read_return(t) ==
    /\ variant = "arc"
    /\ pc[t] = "read_wait"
    /\ ReadOk(rwlock)
    /\ TakeRead(t)
    /\ pc' = [pc EXCEPT ![t] = "run"]
    /\ DidT("read", t, LockResult(rwlock))
    /\ UNCHANGED <<typeVars, scenarioVars, allocVars, handleVars, nweak,
                   ghostVars>>

\* A blocked write() that returns as soon as no writer holds the lock.
PinArc_write_return_Early(t) ==
    /\ variant = "arc"
    /\ pc[t] = "write_wait"
    /\ ~rwlock.writer
    /\ TakeWrite(t)
    /\ pc' = [pc EXCEPT ![t] = "run"]
    /\ DidT("write", t, LockResult(rwlock))
    /\ UNCHANGED <<typeVars, scenarioVars, allocVars, handleVars, nweak,
                   ghostVars>>

\* A blocked write() returns once nobody holds the lock.
PinArc_write_return(t) ==
    /\ variant = "arc"
    /\ pc[t] = "write_wait"
    /\ WriteOk(rwlock)
    /\ TakeWrite(t)
    /\ pc' = [pc EXCEPT ![t] = "run"]
    /\ DidT("write", t, LockResult(rwlock))
    /\ UNCHANGED <<typeVars, scenarioVars, allocVars, handleVars, nweak,
                   ghostVars>>

\* RwLock::read / write "might panic when called if the lock is already held
\* by the current thread": a thread blocked on a lock it holds itself either
\* stays blocked for ever or panics.
PinArc_deadlock_panic(t) ==
    /\ variant = "arc"
    /\ \/ pc[t] = "read_wait" /\ wr[t] > 0
       \/ pc[t] = "write_wait" /\ rd[t] + wr[t] > 0
    /\ Panics(t)
    /\ DidT(IF pc[t] = "read_wait" THEN "read" ELSE "write", t, "panic")
    /\ UNCHANGED <<typeVars, scenarioVars, allocVars, handleVars, nweak,
                   cellVars, guardVars>>

\* A read guard that poisons the lock when a panic destroys it.
PinRwLockReadGuard_drop_Poisoning(t) ==
    /\ variant = "arc" /\ Leaving(t)
    /\ rd[t] > 0
    /\ rd' = [rd EXCEPT ![t] = @ - 1]
    /\ rwlock' = [rwlock EXCEPT !.readers = @ - 1,
                                !.poisoned = @ \/ pc[t] = "panicking"]
    /\ DidT("read_drop", t, "Ok")
    /\ UNCHANGED <<typeVars, scenarioVars, allocVars, handleVars, nweak, wr,
                   refcell, pc, ghostVars>>

\* The read guard goes away: one reader less.
PinRwLockReadGuard_drop(t) ==
    /\ variant = "arc" /\ Leaving(t)
    /\ rd[t] > 0
    /\ rd' = [rd EXCEPT ![t] = @ - 1]
    /\ rwlock' = [rwlock EXCEPT !.readers = @ - 1]
    /\ DidT("read_drop", t, "Ok")
    /\ UNCHANGED <<typeVars, scenarioVars, allocVars, handleVars, nweak, wr,
                   refcell, pc, ghostVars>>

\* A write guard whose destruction never poisons the lock.
PinRwLockWriteGuard_drop_NoPoison(t) ==
    /\ variant = "arc" /\ Leaving(t)
    /\ wr[t] > 0
    /\ wr' = [wr EXCEPT ![t] = @ - 1]
    /\ rwlock' = [rwlock EXCEPT !.writer = FALSE]
    /\ DidT("write_drop", t, "Ok")
    /\ UNCHANGED <<typeVars, scenarioVars, allocVars, handleVars, nweak, rd,
                   refcell, pc, ghostVars>>

\* The write guard goes away: the lock is released, and it is poisoned if the
\* guard is destroyed by the unwinding of a panic.
PinRwLockWriteGuard_drop(t) ==
    /\ variant = "arc" /\ Leaving(t)
    /\ wr[t] > 0
    /\ wr' = [wr EXCEPT ![t] = @ - 1]
    /\ rwlock' = [rwlock EXCEPT !.writer = FALSE,
                                !.poisoned = @ \/ pc[t] = "panicking"]
    /\ DidT("write_drop", t, "Ok")
    /\ UNCHANGED <<typeVars, scenarioVars, allocVars, handleVars, nweak, rd,
                   refcell, pc, ghostVars>>

PinRwLockWriteGuard_as_pin(t) ==
    /\ variant = "arc" /\ Running(t)
    /\ As_pin(t)
    /\ DidT("as_pin", t, "Ok")

----------------------------------------------------------------------------
NextRc ==
    \E t \in Threads :
        \/ \E v \in Values : PinRc_new(t, v)
        \/ \E v \in Values : Rc_new(t, v)
        \/ PinRc_clone(t)
        \/ PinRc_drop(t)
        \/ PinRc_downgrade(t)
        \/ PinRc_PinWeak_clone(t)
        \/ PinRc_PinWeak_drop(t)
        \/ PinRc_PinWeak_upgrade(t)
        \/ PinRc_safe_unpin(t)
        \/ PinRc_from_Rc(t)
        \/ Rc_clone(t)
        \/ Rc_drop(t)
        \/ \E v \in Values : Rc_replace(t, v)
        \/ PinRc_try_borrow(t)
        \/ PinRc_try_borrow_mut(t)
        \/ PinRc_borrow(t)
        \/ PinRc_borrow_mut(t)
        \/ PinRef_clone(t)
        \/ PinRef_drop(t)
        \/ PinRefMut_drop(t)
        \/ PinRefMut_as_pin(t)

NextArc ==
    \E t \in Threads :
        \/ \E v \in Values : PinArc_new(t, v)
        \/ \E v \in Values : Arc_new(t, v)
        \/ PinArc_clone(t)
        \/ PinArc_drop(t)
        \/ PinArc_downgrade(t)
        \/ PinArc_PinWeak_clone(t)
        \/ PinArc_PinWeak_drop(t)
        \/ PinArc_PinWeak_upgrade(t)
        \/ PinArc_safe_unpin(t)
        \/ PinArc_from_Arc(t)
        \/ Arc_clone(t)
        \/ Arc_drop(t)
        \/ \E v \in Values : Arc_replace(t, v)
        \/ PinArc_try_read(t)
        \/ PinArc_try_write(t)
        \/ PinArc_read(t)
        \/ PinArc_write(t)
        \/ PinArc_read_return(t)
        \/ PinArc_write_return(t)
        \/ PinArc_deadlock_panic(t)
        \/ PinRwLockReadGuard_drop(t)
        \/ PinRwLockWriteGuard_drop(t)
        \/ PinRwLockWriteGuard_as_pin(t)

Next ==
    \/ NextRc
    \/ NextArc
    \/ \E t \in Threads : Caller_panic(t)
    \/ \E t \in Threads : Unwound(t)

Spec == Init /\ [][Next]_vars

----------------------------------------------------------------------------
\* Callers that borrow and lock: every operation of PinRc, and of PinArc the
\* handles, the lock and the guards.
NextLock ==
    \E t \in Threads :
        \/ \E v \in Values : PinArc_new(t, v)
        \/ PinArc_clone(t)
        \/ PinArc_drop(t)
        \/ PinArc_try_read(t)
        \/ PinArc_try_write(t)
        \/ PinArc_read(t)
        \/ PinArc_write(t)
        \/ PinArc_read_return(t)
        \/ PinArc_write_return(t)
        \/ PinArc_deadlock_panic(t)
        \/ PinRwLockReadGuard_drop(t)
        \/ PinRwLockWriteGuard_drop(t)
        \/ PinRwLockWriteGuard_as_pin(t)

NextGuards ==
    \/ NextRc
    \/ NextLock
    \/ \E t \in Threads : Caller_panic(t)
    \/ \E t \in Threads : Unwound(t)

SpecGuards == Init /\ [][NextGuards]_vars

\* Callers that share and count: handles and weak references of both
\* variants, with the non-blocking acquisitions and the pinned view.
NextCount ==
    \E t \in Threads :
        \/ \E v \in Values : PinRc_new(t, v)
        \/ \E v \in Values : Rc_new(t, v)
        \/ PinRc_clone(t)
        \/ PinRc_drop(t)
        \/ PinRc_downgrade(t)
        \/ PinRc_PinWeak_clone(t)
        \/ PinRc_PinWeak_drop(t)
        \/ PinRc_PinWeak_upgrade(t)
        \/ PinRc_safe_unpin(t)
        \/ PinRc_from_Rc(t)
        \/ Rc_clone(t)
        \/ Rc_drop(t)
        \/ PinRc_try_borrow(t)
        \/ PinRc_try_borrow_mut(t)
        \/ PinRef_drop(t)
        \/ PinRefMut_drop(t)
        \/ PinRefMut_as_pin(t)
        \/ \E v \in Values : PinArc_new(t, v)
        \/ \E v \in Values : Arc_new(t, v)
        \/ PinArc_clone(t)
        \/ PinArc_drop(t)
        \/ PinArc_downgrade(t)
        \/ PinArc_PinWeak_clone(t)
        \/ PinArc_PinWeak_drop(t)
        \/ PinArc_PinWeak_upgrade(t)
        \/ PinArc_safe_unpin(t)
        \/ PinArc_from_Arc(t)
        \/ Arc_clone(t)
        \/ Arc_drop(t)
        \/ PinArc_try_read(t)
        \/ PinArc_try_write(t)
        \/ PinRwLockReadGuard_drop(t)
        \/ PinRwLockWriteGuard_drop(t)
        \/ PinRwLockWriteGuard_as_pin(t)

SpecCount == Init /\ [][NextCount]_vars

\* Callers that construct, share and read: the value is read by dereferencing
\* a shared guard.

\* From<T>: PinRc::new(t).
PinRc_from_T(t, v) ==
    /\ variant = "rc" /\ Running(t)
    /\ Alloc_new(v, TRUE)
    /\ Did("from_value", "Ok")

\* From<T>: PinArc::new(t).
PinArc_from_T(t, v) ==
    /\ variant = "arc" /\ Running(t)
    /\ Alloc_new(v, TRUE)
    /\ Did("from_value", "Ok")

\* Deref of a PinRef: &*self.inner, the value in the cell.
PinRef_deref(t) ==
    /\ variant = "rc" /\ Running(t)
    /\ rd[t] > 0
    /\ DidRead("deref", t, val)
    /\ UNCHANGED <<typeVars, scenarioVars, allocVars, handleVars, nweak,
                   cellVars, guardVars, pc, ghostVars>>

\* Deref of a PinRwLockReadGuard: &*self.inner, the value in the lock.
PinRwLockReadGuard_deref(t) ==
    /\ variant = "arc" /\ Running(t)
    /\ rd[t] > 0
    /\ DidRead("deref", t, val)
    /\ UNCHANGED <<typeVars, scenarioVars, allocVars, handleVars, nweak,
                   cellVars, guardVars, pc, ghostVars>>

NextRead ==
    \/ NextCount
    \/ \E t \in Threads, v \in Values : PinRc_from_T(t, v)
    \/ \E t \in Threads, v \in Values : PinArc_from_T(t, v)
    \/ \E t \in Threads : PinRef_deref(t)
    \/ \E t \in Threads : PinRwLockReadGuard_deref(t)

SpecRead == Init /\ [][NextRead]_vars

\* The raw-pointer round trip: into_raw gives up a handle for a pointer that
\* keeps its strong reference; from_raw (unsafe: once for each pointer) makes
\* a handle of the pointer again.

\* An into_raw that gives back the strong reference of the handle.
Into_raw_Decrementing ==
    /\ PinHandleFree
    /\ nRaw < MaxRaw
    /\ nPin' = nPin - 1
    /\ nRaw' = nRaw + 1
    /\ strong' = strong - 1
    /\ UNCHANGED <<typeVars, results, seen, other, built, mapped, allocated,
                   weak, val, dropCount, nPlain, nweak, cellVars, guardVars,
                   pc, ghostVars>>

\* Rc::into_raw(this.inner) / Arc::into_raw(this.inner): the handle is
\* consumed without running its destructor.
Into_raw ==
    /\ PinHandleFree
    /\ nRaw < MaxRaw
    /\ nPin' = nPin - 1
    /\ nRaw' = nRaw + 1
    /\ UNCHANGED <<typeVars, results, seen, other, built, mapped, allocVars,
                   nPlain, nweak, cellVars, guardVars, pc, ghostVars>>

\* PinRc { inner: Rc::from_raw(ptr) } / PinArc { inner: Arc::from_raw(ptr) }.
From_raw ==
    /\ nRaw > 0
    /\ StrongHandles < MaxHandles
    /\ nRaw' = nRaw - 1
    /\ nPin' = nPin + 1
    /\ UNCHANGED <<typeVars, results, seen, other, built, mapped, allocVars,
                   nPlain, nweak, cellVars, guardVars, pc, ghostVars>>

PinRc_into_raw(t) ==
    /\ variant = "rc" /\ Running(t)
    /\ Into_raw
    /\ Did("into_raw", "Ok")

PinRc_from_raw(t) ==
    /\ variant = "rc" /\ Running(t)
    /\ From_raw
    /\ Did("from_raw", "Ok")

PinArc_into_raw(t) ==
    /\ variant = "arc" /\ Running(t)
    /\ Into_raw
    /\ Did("into_raw", "Ok")

PinArc_from_raw(t) ==
    /\ variant = "arc" /\ Running(t)
    /\ From_raw
    /\ Did("from_raw", "Ok")

NextRaw ==
    \/ NextCount
    \/ \E t \in Threads : PinRc_into_raw(t)
    \/ \E t \in Threads : PinRc_from_raw(t)
    \/ \E t \in Threads : PinArc_into_raw(t)
    \/ \E t \in Threads : PinArc_from_raw(t)

SpecRaw == Init /\ [][NextRaw]_vars

\* PinRefMut::map: the exclusive guard is moved into RefMut::map, the caller's
\* closure f projects the pinned view, and the guard comes back around the
\* projection, with the same borrow.

\* map is called: orig is consumed and f runs.
PinRefMut_map_call(t) ==
    /\ variant = "rc" /\ Running(t)
    /\ wr[t] > 0
    /\ pc' = [pc EXCEPT ![t] = "mapping"]
    /\ DidT("map_call", t, "Ok")
    /\ UNCHANGED <<typeVars, scenarioVars, allocVars, handleVars, nweak,
                   cellVars, guardVars, ghostVars>>

\* A map that gives the borrow back and returns the guard all the same.
PinRefMut_map_return_Released(t) ==
    /\ variant = "rc"
    /\ pc[t] = "mapping"
    /\ pc' = [pc EXCEPT ![t] = "run"]
    /\ mapped' = TRUE
    /\ refcell' = refcell + 1
    /\ DidT("map", t, "Ok")
    /\ UNCHANGED <<typeVars, results, seen, other, built, nRaw, allocVars,
                   handleVars, nweak, rwlock, guardVars, ghostVars>>

\* map returns PinRefMut { inner: RefMut::map(orig.inner, ..) }.
PinRefMut_map_return(t) ==
    /\ variant = "rc"
    /\ pc[t] = "mapping"
    /\ pc' = [pc EXCEPT ![t] = "run"]
    /\ mapped' = TRUE
    /\ DidT("map", t, "Ok")
    /\ UNCHANGED <<typeVars, results, seen, other, built, nRaw, allocVars,
                   handleVars, nweak, cellVars, guardVars, ghostVars>>

\* f panics: the unwinding will destroy the guard that map was given.
PinRefMut_map_panic(t) ==
    /\ variant = "rc"
    /\ pc[t] = "mapping"
    /\ Panics(t)
    /\ DidT("map", t, "panic")
    /\ UNCHANGED <<typeVars, scenarioVars, allocVars, handleVars, nweak,
                   cellVars, guardVars>>

NextMap ==
    \E t \in Threads :
        \/ \E v \in Values : PinRc_new(t, v)
        \/ PinRc_clone(t)
        \/ PinRc_drop(t)
        \/ PinRc_try_borrow(t)
        \/ PinRc_try_borrow_mut(t)
        \/ PinRc_borrow(t)
        \/ PinRc_borrow_mut(t)
        \/ PinRef_clone(t)
        \/ PinRef_drop(t)
        \/ PinRefMut_drop(t)
        \/ PinRefMut_as_pin(t)
        \/ PinRefMut_map_call(t)
        \/ PinRefMut_map_return(t)
        \/ PinRefMut_map_panic(t)
        \/ Caller_panic(t)
        \/ Unwound(t)

SpecMap == Init /\ [][NextMap]_vars

\* Two allocations: handles are compared by value (==, ordering: PinRc only,
\* PinArc implements neither) and by identity (ptr_eq).

\* The allocations a handle can point to: the one modelled in full, and a
\* second one made by another call of new.
Allocs == {"main", "other"}

\* The caller holds a handle to allocation x.
Held(x) == IF x = "main" THEN nPin > 0 ELSE other.made

\* The wrapped value and the borrow flag of allocation x.
ValOf(x)  == IF x = "main" THEN val ELSE other.val
FlagOf(x) == IF x = "main" THEN refcell ELSE other.flag

\* A second container is constructed.
Other_new(t, v) ==
    /\ Running(t)
    /\ ~other.made
    /\ other' = [made |-> TRUE, val |-> v, flag |-> 0]
    /\ DidT("other_new", t, "Ok")
    /\ UNCHANGED <<typeVars, results, seen, built, mapped, nRaw, allocVars,
                   handleVars, nweak, cellVars, guardVars, pc, ghostVars>>

\* try_borrow_mut on the second container.
Other_try_borrow_mut(t) ==
    /\ variant = "rc" /\ Running(t)
    /\ other.made
    /\ IF BorrowMutOk(other.flag)
       THEN other' = [other EXCEPT !.flag = -1]
            /\ DidT("other_try_borrow_mut", t, "Ok")
       ELSE UNCHANGED other /\ DidT("other_try_borrow_mut", t, "Err")
    /\ UNCHANGED <<typeVars, results, seen, built, mapped, nRaw, allocVars,
                   handleVars, nweak, cellVars, guardVars, pc, ghostVars>>

\* The exclusive guard on the second container goes away.
Other_PinRefMut_drop(t) ==
    /\ variant = "rc" /\ Leaving(t)
    /\ other.flag < 0
    /\ other' = [other EXCEPT !.flag = 0]
    /\ DidT("other_refmut_drop", t, "Ok")
    /\ UNCHANGED <<typeVars, results, seen, built, mapped, nRaw, allocVars,
                   handleVars, nweak, cellVars, guardVars, pc, ghostVars>>

BoolStr(b) == IF b THEN "true" ELSE "false"
OrdStr(v, w) == IF v < w THEN "Less" ELSE IF v = w THEN "Equal" ELSE "Greater"

\* An == that compares the allocations.
PinRc_eq_ByIdentity(t, x, y) ==
    /\ variant = "rc" /\ Running(t)
    /\ Held(x) /\ Held(y)
    /\ DidOn("eq", t, BoolStr(x = y), x, y)
    /\ UNCHANGED <<typeVars, scenarioVars, allocVars, handleVars, nweak,
                   cellVars, guardVars, pc, ghostVars>>

\* a == b, derived: Rc's == compares the RefCells, and RefCell's == borrows
\* both cells and compares the values; it panics if one of them is mutably
\* borrowed.  For T: Eq, Rc answers true for one and the same allocation
\* without looking at the cell.
PinRc_eq(t, x, y) ==
    /\ variant = "rc" /\ Running(t)
    /\ Held(x) /\ Held(y)
    /\ \/ /\ x = y
          /\ DidOn("eq", t, "true", x, y)
          /\ UNCHANGED <<pc, ghostVars>>
       \/ /\ BorrowOk(FlagOf(x)) /\ BorrowOk(FlagOf(y))
          /\ DidOn("eq", t, BoolStr(ValOf(x) = ValOf(y)), x, y)
          /\ UNCHANGED <<pc, ghostVars>>
       \/ /\ ~(BorrowOk(FlagOf(x)) /\ BorrowOk(FlagOf(y)))
          /\ Panics(t)
          /\ DidOn("eq", t, "panic", x, y)
    /\ UNCHANGED <<typeVars, scenarioVars, allocVars, handleVars, nweak,
                   cellVars, guardVars>>

\* a.cmp(&b), derived: RefCell's cmp borrows both cells in the same way.
PinRc_cmp(t, x, y) ==
    /\ variant = "rc" /\ Running(t)
    /\ Held(x) /\ Held(y)
    /\ IF BorrowOk(FlagOf(x)) /\ BorrowOk(FlagOf(y))
       THEN /\ DidOn("cmp", t, OrdStr(ValOf(x), ValOf(y)), x, y)
            /\ UNCHANGED <<pc, ghostVars>>
       ELSE /\ Panics(t)
            /\ DidOn("cmp", t, "panic", x, y)
    /\ UNCHANGED <<typeVars, scenarioVars, allocVars, handleVars, nweak,
                   cellVars, guardVars>>

\* Rc::ptr_eq / Arc::ptr_eq: the two handles point to the same allocation.
ptr_eq(t, x, y) ==
    /\ Running(t)
    /\ Held(x) /\ Held(y)
    /\ DidOn("ptr_eq", t, BoolStr(x = y), x, y)
    /\ UNCHANGED <<typeVars, scenarioVars, allocVars, handleVars, nweak,
                   cellVars, guardVars, pc, ghostVars>>

\* The unwinding is over once the guard on the second container is gone too.
Unwound_both(t) == other.flag = 0 /\ Unwound(t)

NextEq ==
    \E t \in Threads :
        \/ \E v \in Values : PinRc_new(t, v)
        \/ PinRc_clone(t)
        \/ PinRc_drop(t)
        \/ PinRc_downgrade(t)
        \/ PinRc_PinWeak_drop(t)
        \/ PinRc_PinWeak_upgrade(t)
        \/ PinRc_try_borrow(t)
        \/ PinRc_try_borrow_mut(t)
        \/ PinRef_drop(t)
        \/ PinRefMut_drop(t)
        \/ \E v \in Values : PinArc_new(t, v)
        \/ PinArc_clone(t)
        \/ PinArc_drop(t)
        \/ \E v \in Values : Other_new(t, v)
        \/ Other_try_borrow_mut(t)
        \/ Other_PinRefMut_drop(t)
        \/ \E x, y \in Allocs : PinRc_eq(t, x, y)
        \/ \E x, y \in Allocs : PinRc_cmp(t, x, y)
        \/ \E x, y \in Allocs : ptr_eq(t, x, y)
        \/ Unwound_both(t)

SpecEq == Init /\ [][NextEq]_vars

\* Threads that lock one PinArc and block: a thread blocked in read() or
\* write() is woken when the lock is released, and takes the lock if it is
\* left free.
NextBlocking ==
    \/ NextLock
    \/ \E t \in Threads : Caller_panic(t)
    \/ \E t \in Threads : Unwound(t)

SpecBlocking ==
    /\ Init
    /\ [][NextBlocking]_vars
    /\ \A t \in Threads : WF_vars(PinArc_read_return(t))
    /\ \A t \in Threads : WF_vars(PinArc_write_return(t))

----------------------------------------------------------------------------
\* The tests of lib.rs: a generator is stored in the container and resumed
\* through the pinned view of a temporary exclusive guard, one resume for each
\* acquisition; the guard is dropped at the end of the statement.

\* The caller acquires while it holds no guard of its own.
Step_borrow_mut(t) == rd[t] + wr[t] = 0 /\ PinRc_borrow_mut(t)
Step_borrow(t)     == rd[t] + wr[t] = 0 /\ PinRc_borrow(t)
Step_write(t)      == rd[t] + wr[t] = 0 /\ PinArc_write(t)
Step_read(t)       == rd[t] + wr[t] = 0 /\ PinArc_read(t)

\* .as_pin().resume() on the guard just acquired.  The generator yields the
\* number of times it was resumed before, MaxVal times, and then completes;
\* the test pushes what it yields to results.
Resume(t) ==
    /\ Running(t)
    /\ wr[t] > 0
    /\ last.t = t /\ last.op \in {"borrow_mut", "write"} /\ last.res = "Ok"
    /\ viewed' = TRUE
    /\ built' = <<>>
    /\ IF val < MaxVal
       THEN /\ val' = val + 1
            /\ results' = Append(results, val)
            /\ DidT("resume", t, "Yielded")
       ELSE /\ UNCHANGED <<val, results>>
            /\ DidT("resume", t, "Complete")
    /\ UNCHANGED <<typeVars, seen, other, mapped, nRaw, allocated, strong,
                   weak, dropCount, handleVars, nweak, cellVars, guardVars,
                   pc, wrapped, moved, plainMut, panicGhost>>

NextSteps ==
    \E t \in Threads :
        \/ PinRc_new(t, 0)
        \/ PinRc_clone(t)
        \/ PinRc_drop(t)
        \/ Step_borrow_mut(t)
        \/ Step_borrow(t)
        \/ PinRef_drop(t)
        \/ PinRefMut_drop(t)
        \/ PinArc_new(t, 0)
        \/ PinArc_clone(t)
        \/ PinArc_drop(t)
        \/ Step_write(t)
        \/ Step_read(t)
        \/ PinArc_write_return(t)
        \/ PinArc_read_return(t)
        \/ PinRwLockReadGuard_drop(t)
        \/ PinRwLockWriteGuard_drop(t)
        \/ Resume(t)

SpecSteps == Init /\ [][NextSteps]_vars

----------------------------------------------------------------------------
\* Threads that share one PinArc allocation and count concurrently.  Arc's
\* clone and downgrade are one atomic instruction each; Weak::upgrade and the
\* drop of an Arc take two steps, between which other threads run.

\* The threads inside Weak::upgrade.
Upgrading == {t \in Threads : pc[t] = "upgrade"}

\* No call is in progress.
Quiescent == \A t \in Threads : pc[t] = "run"

\* PinWeak::upgrade, first step: Weak::upgrade loads the strong count.
PinWeak_upgrade_load(t) ==
    /\ variant = "arc" /\ Running(t)
    /\ nweak > 0
    /\ StrongHandles + Cardinality(Upgrading) < MaxHandles
    /\ seen' = [seen EXCEPT ![t] = strong]
    /\ pc' = [pc EXCEPT ![t] = "upgrade"]
    /\ DidT("upgrade_load", t, "Ok")
    /\ UNCHANGED <<typeVars, results, other, built, mapped, nRaw, allocVars,
                   handleVars, nweak, cellVars, guardVars, ghostVars>>

\* An upgrade that stores the incremented count without comparing.
PinWeak_upgrade_store(t) ==
    /\ variant = "arc"
    /\ pc[t] = "upgrade"
    /\ strong' = seen[t] + 1
    /\ nPin' = nPin + 1
    /\ pc' = [pc EXCEPT ![t] = "run"]
    /\ DidT("upgrade", t, "Some")
    /\ UNCHANGED <<typeVars, scenarioVars, allocated, weak, val, dropCount,
                   nPlain, nweak, cellVars, guardVars, ghostVars>>

\* PinWeak::upgrade, second step: None if the count loaded is zero; else the
\* count is incremented by compare-and-swap, which either succeeds, and the
\* call returns Some(PinArc { inner }), or fails and loads the count again.
PinWeak_upgrade_cas(t) ==
    /\ variant = "arc"
    /\ pc[t] = "upgrade"
    /\ IF seen[t] = 0
       THEN /\ pc' = [pc EXCEPT ![t] = "run"]
            /\ DidT("upgrade", t, "None")
            /\ UNCHANGED <<strong, nPin, seen>>
       ELSE IF strong = seen[t]
       THEN /\ strong' = strong + 1
            /\ nPin' = nPin + 1
            /\ pc' = [pc EXCEPT ![t] = "run"]
            /\ DidT("upgrade", t, "Some")
            /\ UNCHANGED seen
       ELSE /\ seen' = [seen EXCEPT ![t] = strong]
            /\ DidT("upgrade_retry", t, "Ok")
            /\ UNCHANGED <<strong, nPin, pc>>
    /\ UNCHANGED <<typeVars, results, other, built, mapped, nRaw, allocated,
                   weak, val, dropCount, nPlain, nweak, cellVars, guardVars,
                   ghostVars>>

\* Dropping a PinArc, first step: Arc's drop decrements the strong count; the
\* thread that took it to zero goes on to destroy the value.
PinArc_drop_release(t) ==
    /\ variant = "arc" /\ Running(t)
    /\ PinHandleFree
    /\ nPin' = nPin - 1
    /\ strong' = strong - 1
    /\ pc' = [pc EXCEPT ![t] = IF strong = 1 THEN "drop_slow" ELSE "run"]
    /\ DidT("drop", t, "Ok")
    /\ UNCHANGED <<typeVars, scenarioVars, allocated, weak, val, dropCount,
                   nPlain, nweak, cellVars, guardVars, ghostVars>>

\* Dropping a PinArc, second step (Arc::drop_slow): the value is destroyed.
PinArc_drop_slow(t) ==
    /\ variant = "arc"
    /\ pc[t] = "drop_slow"
    /\ dropCount' = dropCount + 1
    /\ pc' = [pc EXCEPT ![t] = "run"]
    /\ DidT("drop_slow", t, "Ok")
    /\ UNCHANGED <<typeVars, scenarioVars, allocated, strong, weak, val,
                   handleVars, nweak, cellVars, guardVars, ghostVars>>

\* Dropping a PinWeak that no upgrade in progress is called on.
PinWeak_drop_unused(t) ==
    /\ nweak > Cardinality(Upgrading)
    /\ PinArc_PinWeak_drop(t)

NextShare ==
    \E t \in Threads :
        \/ \E v \in Values : PinArc_new(t, v)
        \/ PinArc_clone(t)
        \/ PinArc_downgrade(t)
        \/ PinArc_PinWeak_clone(t)
        \/ PinWeak_drop_unused(t)
        \/ PinWeak_upgrade_load(t)
        \/ PinWeak_upgrade_cas(t)
        \/ PinArc_drop_release(t)
        \/ PinArc_drop_slow(t)

SpecShare == Init /\ [][NextShare]_vars

----------------------------------------------------------------------------
\* Properties.

\* C1: once the value is wrapped by a PinRc / PinArc, no safe operation moves
\* a value of a type with a pinning obligation (not Unpin) out of its place,
\* and no plain mutable access to it is handed out after a pinned mutable
\* view of it has been produced.
C1_PinningInvariant == ~unpinT => (~moved /\ ~plainMut)

\* C2: in the single-thread variant, over all handles of the allocation,
\* either no exclusive guard is alive (and any number of shared guards), or
\* exactly one exclusive guard is alive and no shared guard.
C2_BorrowExclusion ==
    variant = "rc" =>
        \/ ExclGuards = 0
        \/ ExclGuards = 1 /\ SharedGuards = 0

\* A second borrow was refused while the one exclusive guard is alive.
C2_Witness ==
    /\ variant = "rc"
    /\ ExclGuards = 1 /\ SharedGuards = 0
    /\ nPin = 2
    /\ last.op = "try_borrow" /\ last.res = "Err"

\* C3: in the single-thread variant try_borrow_mut fails (borrow_mut panics)
\* whenever a guard of either kind is alive, try_borrow fails (borrow panics)
\* whenever an exclusive guard is alive, try_borrow succeeds whenever no
\* exclusive guard is alive; and no call ever waits.
C3_ConflictDetection ==
    variant = "rc" =>
        /\ (last.op = "try_borrow_mut" /\ last.pre.shared + last.pre.excl > 0)
               => last.res = "Err"
        /\ (last.op = "borrow_mut" /\ last.pre.shared + last.pre.excl > 0)
               => last.res = "panic"
        /\ (last.op = "try_borrow" /\ last.pre.excl > 0) => last.res = "Err"
        /\ (last.op = "borrow" /\ last.pre.excl > 0) => last.res = "panic"
        /\ (last.op = "try_borrow" /\ last.pre.excl = 0) => last.res = "Ok"
        /\ Waiting = {}

\* try_borrow_mut was refused because of a shared guard.
C3_Witness ==
    /\ variant = "rc"
    /\ last.op = "try_borrow_mut" /\ last.res = "Err"
    /\ last.pre.shared > 0 /\ last.pre.excl = 0
    /\ SharedGuards = last.pre.shared

\* The access rights the cell has handed out are those of the guards alive.
CellMatchesGuards ==
    IF variant = "rc"
    THEN refcell = SharedGuards - ExclGuards
    ELSE rwlock.readers = SharedGuards /\ rwlock.writer = (ExclGuards > 0)

\* A non-blocking acquisition retried after every conflicting guard is gone
\* acquires the access.
RetryAcquires(op, conflicting) ==
    (last.op = op /\ conflicting = 0) => last.res \in {"Ok", "Poisoned"}

\* C4, as claimed: the access right is held exactly while its guard is alive,
\* whichever way the guard is destroyed, and once every conflicting guard is
\* destroyed a retried try_borrow_mut / try_borrow / try_write / try_read
\* acquires the access at once.
C4_GuardReleaseAsClaimed ==
    /\ CellMatchesGuards
    /\ RetryAcquires("try_borrow_mut", last.pre.shared + last.pre.excl)
    /\ RetryAcquires("try_borrow", last.pre.excl)
    /\ RetryAcquires("try_write", last.pre.shared + last.pre.excl)
    /\ RetryAcquires("try_read", last.pre.excl)

\* C4, amended: the same, except that a retried try_read acquires the access
\* at once only if no thread is blocked in read() or write() on the lock.
C4_GuardRelease ==
    /\ CellMatchesGuards
    /\ RetryAcquires("try_borrow_mut", last.pre.shared + last.pre.excl)
    /\ RetryAcquires("try_borrow", last.pre.excl)
    /\ RetryAcquires("try_write", last.pre.shared + last.pre.excl)
    /\ RetryAcquires("try_read", last.pre.excl + last.pre.waiting)

\* The unwinding of a panic has destroyed the exclusive guard, and the cell
\* is free again.
C4_Witness ==
    /\ last.op \in {"refmut_drop", "write_drop"}
    /\ pc[last.t] = "panicking"
    /\ last.pre.excl = 1
    /\ ExclGuards = 0
    /\ PlainCellFree

\* C5: in the multi-thread variant no exclusive guard is ever alive together
\* with another guard, and a read() or try_read() made while only shared
\* guards are alive (and no thread waits for the lock) returns with its guard.
C5_RwExclusion ==
    variant = "arc" =>
        /\ \/ ExclGuards = 0
           \/ ExclGuards = 1 /\ SharedGuards = 0
        /\ (/\ last.op \in {"read", "try_read"}
            /\ last.pre.excl = 0
            /\ last.pre.waiting = 0) => last.res \in {"Ok", "Poisoned"}

\* Two threads hold shared guards at the same time.
C5_Witness ==
    /\ variant = "arc"
    /\ rd[1] > 0 /\ rd[2] > 0
    /\ last.op = "read" /\ last.pre.shared > 0

TryOps == {"try_read", "try_write"}

\* C6: try_write returns WouldBlock whenever a guard is alive and try_read
\* whenever an exclusive guard is alive; neither ever blocks; WouldBlock
\* carries no guard; Poisoned is returned only with the lock acquired, so a
\* lock both poisoned and held yields WouldBlock.
C6_TryLock ==
    variant = "arc" =>
        /\ (last.op = "try_write" /\ last.pre.shared + last.pre.excl > 0)
               => last.res = "WouldBlock"
        /\ (last.op = "try_read" /\ last.pre.excl > 0)
               => last.res = "WouldBlock"
        /\ last.op \in TryOps => pc[last.t] = "run"
        /\ (last.op \in TryOps /\ last.res = "WouldBlock")
               => SharedGuards = last.pre.shared /\ ExclGuards = last.pre.excl
        /\ (last.op = "try_write" /\ last.res = "Poisoned")
               => /\ last.pre.poisoned
                  /\ last.pre.shared + last.pre.excl = 0
                  /\ ExclGuards = 1
        /\ (last.op = "try_read" /\ last.res = "Poisoned")
               => /\ last.pre.poisoned
                  /\ last.pre.excl = 0
                  /\ SharedGuards = last.pre.shared + 1

\* try_write on a lock that is both poisoned and held returned WouldBlock.
C6_Witness ==
    /\ variant = "arc"
    /\ last.op = "try_write" /\ last.res = "WouldBlock"
    /\ last.pre.poisoned
    /\ last.pre.shared + last.pre.excl > 0

\* C7: after a thread has ended by a panic raised under its exclusive guard,
\* is_poisoned() is true, the lock is not left held by that thread, and a
\* read() or write() that returns does so with the guard, inside the poisoned
\* indicator when the lock is poisoned.
C7_Poisoning ==
    variant = "arc" =>
        /\ diedExcl => is_poisoned
        /\ rwlock.writer => ExclGuards > 0
        /\ (last.op \in {"read", "write"} /\ last.res \notin {"blocked", "panic"})
               => /\ last.res = IF last.pre.poisoned THEN "Poisoned" ELSE "Ok"
                  /\ SharedGuards + ExclGuards
                         = last.pre.shared + last.pre.excl + 1

\* After such an end of a thread, write() has returned the exclusive guard
\* inside the poisoned indicator.
C7_Witness ==
    /\ variant = "arc"
    /\ diedExcl
    /\ last.op = "write" /\ last.res = "Poisoned"
    /\ ExclGuards = 1

\* C8: upgrade returns a strong handle exactly when a strong handle exists at
\* the call and None otherwise; once the value has been destroyed no strong
\* handle exists again and every upgrade returns None.
C8_WeakUpgrade ==
    /\ last.op = "upgrade" => (last.res = "Some" <=> last.pre.handles > 0)
    /\ (last.op = "upgrade" /\ last.pre.dropCount > 0) => last.res = "None"
    /\ dropCount > 0 => StrongHandles = 0 /\ strong_count = 0

\* A weak reference that outlived every strong handle was upgraded: None.
C8_Witness ==
    /\ last.op = "upgrade" /\ last.res = "None"
    /\ dropCount = 1
    /\ nweak > 0

\* C9: new gives strong_count 1 and weak_count 0; clone and a successful
\* upgrade add one to strong_count only; downgrade and PinWeak::clone add one
\* to weak_count only; a drop takes one from the matching count; while the
\* allocation is alive the counts are the numbers of live handles and of live
\* weak references.
C9_CountAccounting ==
    /\ last.op = "new" => strong_count = 1 /\ weak_count = 0
    /\ (last.op = "clone" \/ (last.op = "upgrade" /\ last.res = "Some"))
           => strong_count = last.pre.strong + 1 /\ weak_count = last.pre.weak
    /\ last.op \in {"downgrade", "weak_clone"}
           => weak_count = last.pre.weak + 1 /\ strong_count = last.pre.strong
    /\ last.op = "drop"
           => strong_count = last.pre.strong - 1 /\ weak_count = last.pre.weak
    /\ last.op = "weak_drop"
           => weak_count = last.pre.weak - 1 /\ strong_count = last.pre.strong
    /\ (allocated /\ dropCount = 0)
           => strong_count = StrongHandles /\ weak_count = nweak

\* A successful upgrade next to a live handle and live weak references.
C9_Witness ==
    /\ last.op = "upgrade" /\ last.res = "Some"
    /\ strong_count = 2
    /\ weak_count = 2

\* C10: the value is destroyed exactly when the last strong handle is dropped
\* and only once; a drop that leaves another strong handle leaves the value
\* alive and unchanged; weak references do not keep it alive.
C10_Destruction ==
    /\ dropCount <= 1
    /\ dropCount = 1 <=> (allocated /\ StrongHandles = 0)
    /\ (last.op \in {"drop", "plain_drop"} /\ StrongHandles > 0)
           => /\ dropCount = 0
              /\ val = last.pre.val
              /\ strong_count > 0

\* The last strong handle was dropped while weak references were alive.
C10_Witness ==
    /\ last.op = "drop" /\ last.pre.handles = 1
    /\ dropCount = 1
    /\ nweak > 0

\* C11: with sequential exclusive acquisitions (borrow_mut() or write()), each
\* resuming the stored computation once through as_pin() and releasing its
\* guard, every acquisition succeeds, nothing but a resume changes the value,
\* and the resumes accumulate: the computation yields 0, 1, ... in order,
\* MaxVal values in all, and then completes, and the step count read
\* afterwards is the number of values yielded.
C11_Accumulation ==
    /\ val = Len(results)
    /\ \A i \in 1..Len(results) : results[i] = i - 1
    /\ last.op = "resume" =>
           IF last.pre.val < MaxVal
           THEN /\ last.res = "Yielded"
                /\ val = last.pre.val + 1
                /\ results[Len(results)] = last.pre.val
           ELSE /\ last.res = "Complete"
                /\ val = last.pre.val
    /\ last.op \in {"borrow_mut", "borrow"} => last.res = "Ok"
    /\ last.op \in {"write", "read"} => last.res \in {"Ok", "blocked"}
    /\ last.op \notin {"resume", "new"} => val = last.pre.val

\* After the computation has yielded all its values through as many
\* acquisitions, a final shared guard reads the accumulated count.
C11_Witness ==
    /\ last.op \in {"borrow", "read"} /\ last.res = "Ok"
    /\ SharedGuards = 1
    /\ Len(results) = MaxVal
    /\ val = MaxVal

\* C12: with threads concurrently cloning, dropping, downgrading and
\* upgrading handles of one PinArc allocation, no count update is lost (when
\* no call is in progress strong_count is the number of live strong handles
\* and weak_count the number of live weak references), the value is destroyed
\* once, exactly when no strong handle is left, and an upgrade that races with
\* the drop of the last strong handle returns either a handle to the value
\* still alive or None, never a handle to a destroyed value.
C12_ConcurrentCounting ==
    variant = "arc" =>
        /\ Quiescent => strong_count = StrongHandles /\ weak_count = nweak
        /\ dropCount <= 1
        /\ (Quiescent /\ allocated /\ StrongHandles = 0) => dropCount = 1
        /\ dropCount = 1 => StrongHandles = 0
        /\ (last.op = "upgrade" /\ last.res = "Some")
               => last.pre.handles > 0 /\ dropCount = 0
        /\ (last.op = "upgrade" /\ last.res = "None") => StrongHandles = 0

\* The race: an upgrade has loaded the count 1, and the last strong handle was
\* dropped before its compare-and-swap.
C12_Witness ==
    /\ variant = "arc"
    /\ \E t \in Threads : pc[t] = "upgrade" /\ seen[t] = 1
    /\ last.op = "drop" /\ last.pre.strong = 1
    /\ strong_count = 0

\* No thread but t holds a guard / an exclusive guard.
OthersHoldNothing(t) == \A u \in Threads \ {t} : rd[u] + wr[u] = 0
OthersHoldNoWrite(t) == \A u \in Threads \ {t} : wr[u] = 0

\* What a returning or failing read() / write() found.
BlockingReturns ==
    variant = "arc" =>
        /\ (last.op = "write" /\ last.res \in {"Ok", "Poisoned"})
               => /\ last.pre.shared + last.pre.excl = 0
                  /\ wr[last.t] = 1 /\ pc[last.t] = "run"
        /\ (last.op = "read" /\ last.res \in {"Ok", "Poisoned"})
               => /\ last.pre.excl = 0
                  /\ rd[last.t] > 0 /\ pc[last.t] = "run"
        /\ (last.op \in {"read", "write"} /\ last.res = "panic")
               => rd[last.t] + wr[last.t] > 0
        /\ (last.op \in {"read", "write"} /\ last.res = "blocked")
               => /\ last.pre.shared + last.pre.excl + last.pre.waiting > 0
                  /\ pc[last.t] \in {"read_wait", "write_wait"}

\* C13: write() returns only when no other guard is alive and read() only when
\* no exclusive guard is alive; a call blocks only on a lock in use and fails
\* only by the panic of a thread that holds the lock itself, never because of
\* other threads; and a blocked call of a thread that holds no guard itself
\* returns with its guard if the other threads leave the lock free.
C13_BlockingAcquisition ==
    /\ []BlockingReturns
    /\ \A t \in Threads :
           (pc[t] = "write_wait" /\ rd[t] + wr[t] = 0)
               ~> ((pc[t] = "run" /\ wr[t] = 1) \/ ~OthersHoldNothing(t))
    /\ \A t \in Threads :
           (pc[t] = "read_wait" /\ rd[t] + wr[t] = 0)
               ~> ((pc[t] = "run" /\ rd[t] = 1) \/ ~OthersHoldNoWrite(t))

\* A write() that had blocked has returned with the guard, after the reader
\* that held the lock released it.
C13_Witness ==
    /\ variant = "arc"
    /\ last.op = "write" /\ last.res = "Ok"
    /\ last.pre.waiting = 1
    /\ wr[last.t] = 1
    /\ ExclGuards = 1 /\ SharedGuards = 0

\* C14, as claimed: for any two handles, == and the ordering are decided by
\* comparing the wrapped values, and ptr_eq is true exactly when the two
\* handles share one allocation.
C14_EqualityAsClaimed ==
    /\ last.op = "eq"
           => last.res = BoolStr(ValOf(last.arg[1]) = ValOf(last.arg[2]))
    /\ last.op = "cmp"
           => last.res = OrdStr(ValOf(last.arg[1]), ValOf(last.arg[2]))
    /\ last.op = "ptr_eq" => last.res = BoolStr(last.arg[1] = last.arg[2])

NoExclusiveOn(x) == FlagOf(x) >= 0

\* C14, amended: for two PinRc handles, == and the ordering are decided by
\* comparing the wrapped values whenever they return, and they return whenever
\* no exclusive guard is alive on either allocation; with one alive they
\* panic (or, for one and the same allocation, == may answer true); ptr_eq is
\* true exactly when the two handles share one allocation, in both variants.
C14_Equality ==
    /\ (last.op = "eq" /\ last.res # "panic")
           => last.res = BoolStr(ValOf(last.arg[1]) = ValOf(last.arg[2]))
    /\ (last.op = "cmp" /\ last.res # "panic")
           => last.res = OrdStr(ValOf(last.arg[1]), ValOf(last.arg[2]))
    /\ (last.op \in {"eq", "cmp"} /\ last.res = "panic")
           => ~(NoExclusiveOn(last.arg[1]) /\ NoExclusiveOn(last.arg[2]))
    /\ last.op \in {"eq", "cmp"} => variant = "rc"
    /\ last.op = "ptr_eq" => last.res = BoolStr(last.arg[1] = last.arg[2])

\* Two handles to different allocations that hold equal values compared
\* equal.
C14_Witness ==
    /\ last.op = "eq" /\ last.res = "true"
    /\ last.arg = <<"main", "other">>
    /\ val = other.val

\* C15: a container constructed from v (new or From<T>) and not mutated
\* since holds v, and dereferencing a shared guard, taken through whichever
\* handle, yields v.
C15_ConstructThenRead ==
    /\ (allocated /\ built # <<>>) => val = built[1]
    /\ (last.op = "deref" /\ built # <<>>) => last.arg = built
    /\ last.op \in {"new", "from_value"} => built = <<val>>

\* The value given to the constructor was read through a shared guard while
\* a second handle and a weak reference exist.
C15_Witness ==
    /\ last.op = "deref" /\ last.arg = <<MaxVal>>
    /\ built = <<MaxVal>>
    /\ StrongHandles = 2 /\ nweak > 0
    /\ SharedGuards > 0

\* The last call was an acquisition that failed.
FailedAcquisition ==
    \/ last.op \in {"try_borrow", "try_borrow_mut"} /\ last.res = "Err"
    \/ last.op \in {"borrow", "borrow_mut"} /\ last.res = "panic"
    \/ last.op \in {"try_read", "try_write"} /\ last.res = "WouldBlock"

\* C16: a failed try_borrow / try_borrow_mut, a borrow / borrow_mut that
\* aborts and a try_read / try_write that returns WouldBlock leave the guards
\* alive, the value, strong_count, weak_count and the poisoned flag as they
\* were, and the guards alive keep the access they hold.
C16_FailedAcquisitionFrame ==
    FailedAcquisition =>
        /\ SharedGuards = last.pre.shared
        /\ ExclGuards = last.pre.excl
        /\ val = last.pre.val
        /\ dropCount = last.pre.dropCount
        /\ strong_count = last.pre.strong
        /\ weak_count = last.pre.weak
        /\ StrongHandles = last.pre.handles
        /\ is_poisoned = last.pre.poisoned
        /\ IF variant = "rc"
           THEN refcell = SharedGuards - ExclGuards
           ELSE /\ rwlock.readers = SharedGuards
                /\ rwlock.writer = (ExclGuards > 0)

\* borrow_mut() aborted while two shared guards are alive, and they still
\* are.
C16_Witness ==
    /\ last.op = "borrow_mut" /\ last.res = "panic"
    /\ last.pre.shared = 2
    /\ SharedGuards = 2
    /\ refcell = 2

\* C17: the guard inside a poisoned result of read(), write(), try_read() or
\* try_write() holds the access as any guard does: the lock is held from the
\* return on, a try_write made on a poisoned lock while a guard is alive gets
\* WouldBlock, and dropping the result releases the access.
C17_PoisonedResultHoldsLock ==
    variant = "arc" =>
        /\ (last.res = "Poisoned" /\ last.op \in {"write", "try_write"})
               => /\ rwlock.writer
                  /\ wr[last.t] = 1
                  /\ ExclGuards = last.pre.excl + 1
        /\ (last.res = "Poisoned" /\ last.op \in {"read", "try_read"})
               => /\ rwlock.readers = last.pre.shared + 1
                  /\ rd[last.t] >= 1
                  /\ SharedGuards = last.pre.shared + 1
        /\ (/\ last.op = "try_write"
            /\ last.pre.poisoned
            /\ last.pre.shared + last.pre.excl > 0) => last.res = "WouldBlock"
        /\ (last.op = "write_drop" /\ last.pre.poisoned)
               => ~rwlock.writer /\ ExclGuards = 0
        /\ (last.op = "read_drop" /\ last.pre.poisoned)
               => rwlock.readers = last.pre.shared - 1

\* While one thread holds the exclusive guard it got from a poisoned lock,
\* the try_write of another thread got WouldBlock.
C17_Witness ==
    /\ variant = "arc"
    /\ last.op = "try_write" /\ last.res = "WouldBlock"
    /\ wr[last.t] = 0
    /\ is_poisoned
    /\ ExclGuards = 1

\* A panic has destroyed the exclusive guard its thread held: the thread has
\* ended that way, or it is still unwinding with the guard already gone.
ExclusiveHolderFailed ==
    \/ diedExcl
    \/ \E t \in Threads :
           pc[t] = "panicking" /\ panickedExcl[t] /\ wr[t] = 0

\* C18: is_poisoned() is true exactly when a thread has failed while it held
\* the exclusive guard; the failure of a thread that holds only shared guards
\* does not set the flag; no operation clears it; and on a poisoned lock every
\* acquisition that succeeds is flagged poisoned.
C18_PoisonHistory ==
    variant = "arc" =>
        /\ is_poisoned <=> ExclusiveHolderFailed
        /\ last.pre.poisoned => is_poisoned
        /\ (~last.pre.poisoned /\ is_poisoned)
               => /\ last.op = "write_drop"
                  /\ pc[last.t] = "panicking"
                  /\ panickedExcl[last.t]
        /\ (/\ last.pre.poisoned
            /\ last.op \in {"read", "write", "try_read", "try_write"}
            /\ last.res \notin {"WouldBlock", "blocked", "panic"})
               => last.res = "Poisoned"

\* A thread that held only a shared guard has ended by a panic, and the lock
\* is not poisoned.
C18_Witness ==
    /\ variant = "arc"
    /\ last.op = "unwound"
    /\ ~diedExcl
    /\ ~is_poisoned

\* C19: PinRefMut::map returns a guard that carries the borrow of the guard
\* it consumed: while map runs and while the mapped guard is alive exactly one
\* exclusive borrow is outstanding, try_borrow and try_borrow_mut fail, and
\* dropping the mapped guard releases the borrow, once.
C19_MappedGuard ==
    variant = "rc" =>
        /\ refcell >= -1
        /\ \A t \in Threads :
               pc[t] = "mapping" => wr[t] = 1 /\ ExclGuards = 1 /\ refcell = -1
        /\ mapped => ExclGuards = 1 /\ SharedGuards = 0 /\ refcell = -1
        /\ (last.op = "map" /\ last.res = "Ok")
               => mapped /\ last.pre.excl = 1 /\ ExclGuards = 1
        /\ (last.op \in {"try_borrow", "try_borrow_mut"} /\ mapped)
               => last.res = "Err"
        /\ last.op = "refmut_drop"
               => ~mapped /\ ExclGuards = 0 /\ refcell = 0

\* try_borrow failed while the mapped guard is alive.
C19_Witness ==
    /\ variant = "rc"
    /\ mapped
    /\ last.op = "try_borrow" /\ last.res = "Err"

\* C20: into_raw and from_raw each leave strong_count, weak_count, the borrow
\* or lock state, the guards and the value as they were, so a round trip gives
\* back a handle with all of them as before into_raw; the pointer keeps the
\* strong reference of the handle it came from, so the value stays alive and
\* weak upgrades succeed while a pointer is out, with or without another
\* strong handle.
C20_RawRoundTrip ==
    /\ last.op \in {"into_raw", "from_raw"}
           => /\ strong_count = last.pre.strong
              /\ weak_count = last.pre.weak
              /\ val = last.pre.val
              /\ dropCount = last.pre.dropCount
              /\ SharedGuards = last.pre.shared
              /\ ExclGuards = last.pre.excl
              /\ is_poisoned = last.pre.poisoned
              /\ IF variant = "rc"
                 THEN refcell = SharedGuards - ExclGuards
                 ELSE /\ rwlock.readers = SharedGuards
                      /\ rwlock.writer = (ExclGuards > 0)
    /\ last.op = "into_raw" => StrongHandles = last.pre.handles - 1
    /\ last.op = "from_raw" => StrongHandles = last.pre.handles + 1
    /\ (allocated /\ dropCount = 0) => strong_count = StrongHandles + nRaw
    /\ nRaw > 0 => dropCount = 0 /\ strong_count > 0
    /\ (last.op = "upgrade" /\ nRaw > 0) => last.res = "Some"

\* The only strong handle went through into_raw, so that no strong handle
\* was left while a weak reference was alive, and from_raw has made a handle
\* of the pointer again.
C20_Witness ==
    /\ last.op = "from_raw"
    /\ nRaw = 0
    /\ last.pre.strong = 1 /\ last.pre.handles = 0
    /\ strong_count = 1 /\ StrongHandles = 1
    /\ nweak > 0 /\ dropCount = 0

====
